---- MODULE Spec2Model ----
(***************************************************************************)
(* discord-itunes (src/index.js): the poll loop that mirrors the state of  *)
(* the music player to a Discord rich-presence session.                    *)
(*                                                                         *)
(* The program is single threaded.  Every `await` of an external call (an  *)
(* AppleScript query, an HTTP fetch, a Discord IPC request) suspends the   *)
(* running async function; the code between two such awaits runs as one    *)
(* atomic step.  Each suspended async function is a task with a position   *)
(* (pc) and its local variables.  An external call delivers its result in  *)
(* the step that resumes the task: the player is read in that step.        *)
(* A rejection that nothing handles is reported by the runtime and the     *)
(* program goes on; the task it ended is gone.                            *)
(* Awaits of values that are already settled (`await fetchStation(...)`    *)
(* when fetchStation itself awaited nothing external) only take microtask  *)
(* turns, in which no I/O callback can run: they stay inside the step.     *)
(***************************************************************************)
EXTENDS Naturals, Sequences, FiniteSets, Bags, TLC

(***************************************************************************)
(* Bounds of the model                                                     *)
(***************************************************************************)
\* async functions and detached fetches that may be pending at once
MaxTasks == 2
\* pieces of text and separators in a stream title given to the derivation
MaxTitleLen == 3

(***************************************************************************)
(* Program constants                                                       *)
(***************************************************************************)
iTunesMusicClientId == "695005084505079848"
iTunesRadioClientId == "702431764781465650"

\* '' as the initial value of previousPlaying / previousStreaming
EmptyFingerprint == <<>>

(***************************************************************************)
(* The environment: what the player can play, what radio.net can answer    *)
(***************************************************************************)
\* name, artist, album of the current track as the three queries return them
TrackA == <<"Song A", "Artist X", "Album Y">>
Station1 == <<"Radio One", "", "">>
Contents == {TrackA, Station1}
PlayerStates == {"playing", "stopped"}

\* the entries of stations.v2.json the model distinguishes
StationAssets == {<<"Radio One", "radio1">>}

\* the separator of line 204
Separator == " - "

\* now-playing records of api.radio.net; a streamTitle is the sequence of the pieces
\* of text and the separators it is made of
NowPlaying1 == [songName |-> "Track T", artistName |-> "Artist R", albumName |-> "Album Q",
                streamTitle |-> <<"Artist R", Separator, "Track T">>]
NowPlaying2 == [songName |-> "", artistName |-> "", albumName |-> "",
                streamTitle |-> <<"Artist S", Separator, "Track U">>]
NowPlayingRecords == {NowPlaying1, NowPlaying2}

VARIABLES
    \* ---- module-level variables of src/index.js
    knownStations,       \* [loaded, map]: loaded = FALSE is JavaScript's undefined
    discordClient,       \* the current session object, by the state of its transport:
                         \* "idle" (as constructed), "connecting", "open"
    requestedClientId,
    activatedClientId,
    currentStationName,
    currentStationId,
    previousPlaying,
    previousStreaming,
    loggedIn,
    \* ---- control state
    startup,             \* position of the start-up chain (lines 382-406)
    tasks,               \* bag of suspended async functions and detached fetches
    \* ---- collaborators
    player,              \* player state
    content,             \* what the player has as current track
    \* ---- observation
    ev,                  \* what the last step did
    sameSends,           \* local payloads carrying the player's facts since the player last changed
    stopTeardowns        \* teardowns by non-playing ticks since the player's state last changed

vars == <<knownStations, discordClient, requestedClientId, activatedClientId,
          currentStationName, currentStationId, previousPlaying, previousStreaming,
          loggedIn, startup, tasks, player, content, ev, sameSends, stopTeardowns>>

globals == <<requestedClientId, activatedClientId, currentStationName, currentStationId,
             previousPlaying, previousStreaming, loggedIn>>

(***************************************************************************)
(* Helpers                                                                 *)
(***************************************************************************)
Event(type) == [type |-> type, mode |-> "", facts |-> <<>>, largeImageKey |-> ""]

Task(origin, pc, trackName, artistName, albumName, arg) ==
    [origin |-> origin, pc |-> pc, trackName |-> trackName, artistName |-> artistName,
     albumName |-> albumName, arg |-> arg]

TaskSet == BagToSet(tasks)
NTasks == BagCardinality(tasks)
Without(t) == tasks (-) SetToBag({t})
Replaced(t, u) == Without(t) (+) SetToBag({u})
FactsOf(t) == <<t.trackName, t.artistName, t.albumName>>

\* JSON.stringify({trackName, artistName, albumName}): injective on the three strings
\* and never the empty string
Fingerprint(trackName, artistName, albumName) == <<trackName, artistName, albumName>>

\* getStationKeyName: `stationName in knownStations` throws on undefined
StationKeyThrows == ~knownStations.loaded
getStationKeyName(stationName) ==
    IF \E e \in knownStations.map : e[1] = stationName
    THEN (CHOOSE e \in knownStations.map : e[1] = stationName)[2]
    ELSE stationName

Init ==
    /\ knownStations = [loaded |-> FALSE, map |-> {}]
    /\ discordClient = "idle"
    /\ requestedClientId = iTunesMusicClientId
    /\ activatedClientId = iTunesMusicClientId
    /\ currentStationName = ""
    /\ currentStationId = ""
    /\ previousPlaying = EmptyFingerprint
    /\ previousStreaming = EmptyFingerprint
    /\ loggedIn = FALSE
    /\ startup = "version"
    /\ tasks = EmptyBag
    /\ player \in PlayerStates
    /\ content \in Contents
    /\ ev = Event("init")
    /\ sameSends = 0
    /\ stopTeardowns = 0

envVars == <<player, content>>
history == <<sameSends, stopTeardowns>>
station == <<currentStationName, currentStationId>>

\* the end of a setActivity call: the first setActivity of the start-up chain
\* resolves and its .then installs the interval (lines 399-403)
Finished(t) == IF t.origin = "first" THEN "interval" ELSE startup

\* an exception inside the async function: its promise rejects and nothing handles
\* it; the .then of the first setActivity never runs, so no interval is installed
Rejects(t, type) ==
    /\ tasks' = Without(t)
    /\ startup' = IF t.origin = "first" THEN "dead" ELSE startup
    /\ ev' = Event(type)

\* runAppleScript (lines 10-24): execString reports an error, the promise is
\* rejected (line 15); the catch of line 20 only covers the Promise constructor
BridgeError(t) == Rejects(t, "bridgeError")

\* fire-and-forget work keeps running after the call that started it returned
Detached(pc, arg) == Task("detached", pc, "", "", "", arg)

(***************************************************************************)
(* Start-up (lines 382-406)                                                *)
(***************************************************************************)
\* runAppleScript(version).then(...): a failed query rejects, the chain ends
StartVersion ==
    /\ startup = "version"
    /\ \E ok \in BOOLEAN :
        IF ok
        THEN startup' = "gist" /\ ev' = Event("step")
        ELSE startup' = "dead" /\ ev' = Event("versionError")
    /\ UNCHANGED <<knownStations, globals, discordClient, tasks, envVars, history>>

\* fetchUrl of stations.v2.json rejects on a status other than 200 or a network
\* failure, and the .then callback - the only caller of the first setActivity -
\* never runs
StationsFetchFailed ==
    /\ startup' = "dead"
    /\ ev' = Event("stationsFetchError")
    /\ UNCHANGED <<knownStations, tasks>>

\* lines 387-393 JSON.parse throws, the catch logs, knownStations stays undefined;
\* then line 399 calls setActivity
StationsUnparseable ==
    /\ startup' = "first"
    /\ ev' = Event("stationsUnparseable")
    /\ tasks' = tasks (+) SetToBag({Task("first", "state", "", "", "", "")})
    /\ UNCHANGED knownStations

StationsLoaded ==
    /\ knownStations' = [loaded |-> TRUE, map |-> StationAssets]
    /\ startup' = "first"
    /\ ev' = Event("step")
    /\ tasks' = tasks (+) SetToBag({Task("first", "state", "", "", "", "")})

StartStations ==
    /\ startup = "gist"
    /\ \/ StationsFetchFailed
       \/ StationsUnparseable
       \/ StationsLoaded
    /\ UNCHANGED <<globals, discordClient, envVars, history>>

\* setInterval(async () => await setActivity(), 5000): the timer fires whether or
\* not earlier calls have finished
Tick ==
    /\ startup = "interval"
    /\ NTasks < MaxTasks
    /\ tasks' = tasks (+) SetToBag({Task("timer", "state", "", "", "", "")})
    /\ ev' = Event("tick")
    /\ UNCHANGED <<knownStations, globals, discordClient, startup, envVars, history>>

(***************************************************************************)
(* closeConnection (lines 299-305): destroy, construct a replacement.      *)
(* discord-rpc is not part of the repository; destroy() is taken to close  *)
(* the old object's transport for good, so that only the current object    *)
(* can still emit 'connected'. The replacement starts unconnected.         *)
(***************************************************************************)
closeConnection ==
    /\ discordClient' = "idle"
    /\ loggedIn' = FALSE
    /\ previousPlaying' = EmptyFingerprint

(***************************************************************************)
(* setActivity (lines 315-349), from the answer of the player-state query  *)
(***************************************************************************)
\* lines 320-323; connect on an object that is connecting or open starts nothing new
SetActivityConnect(t) ==
    /\ player = "playing" /\ ~loggedIn
    /\ discordClient' = IF discordClient = "idle" THEN "connecting" ELSE discordClient
    /\ tasks' = Without(t) /\ startup' = Finished(t)
    /\ ev' = Event("step")
    /\ UNCHANGED <<globals, stopTeardowns>>

\* the switch without closeConnection: the session object is kept
SetActivitySwitchKeepsSession(t) ==
    /\ player = "playing" /\ loggedIn /\ requestedClientId # activatedClientId
    /\ activatedClientId' = requestedClientId
    /\ currentStationId' = ""
    /\ currentStationName' = ""
    /\ tasks' = Without(t) /\ startup' = Finished(t)
    /\ ev' = Event("switch")
    /\ UNCHANGED <<requestedClientId, previousStreaming, stopTeardowns, discordClient,
                   loggedIn, previousPlaying>>

\* lines 324-331
SetActivitySwitch(t) ==
    /\ player = "playing" /\ loggedIn /\ requestedClientId # activatedClientId
    /\ activatedClientId' = requestedClientId
    /\ currentStationId' = ""
    /\ currentStationName' = ""
    /\ closeConnection
    /\ tasks' = Without(t) /\ startup' = Finished(t)
    /\ ev' = Event("switch")
    /\ UNCHANGED <<requestedClientId, previousStreaming, stopTeardowns>>

\* lines 332-334
SetActivityEvaluate(t) ==
    /\ player = "playing" /\ loggedIn /\ requestedClientId = activatedClientId
    /\ tasks' = Replaced(t, [t EXCEPT !.pc = "name"])
    /\ ev' = Event("step")
    /\ UNCHANGED <<globals, discordClient, startup, stopTeardowns>>

\* a non-playing tick that leaves the session as it is
SetActivityNotPlayingKeepsSession(t) ==
    /\ player # "playing"
    /\ ev' = Event("step")
    /\ UNCHANGED <<globals, discordClient, stopTeardowns>>
    /\ tasks' = Without(t) /\ startup' = Finished(t)

\* lines 341-347
SetActivityNotPlaying(t) ==
    /\ player # "playing"
    /\ IF loggedIn
       THEN /\ closeConnection
            /\ ev' = Event("teardown")
            /\ stopTeardowns' = IF stopTeardowns < 2 THEN stopTeardowns + 1 ELSE 2
            /\ UNCHANGED <<requestedClientId, activatedClientId, station, previousStreaming>>
       ELSE /\ ev' = Event("step")
            /\ UNCHANGED <<globals, discordClient, stopTeardowns>>
    /\ tasks' = Without(t) /\ startup' = Finished(t)

SetActivity(t) ==
    /\ t.pc = "state"
    /\ \E ok \in BOOLEAN :
        IF ok
        THEN \/ SetActivityConnect(t)
             \/ SetActivitySwitch(t)
             \/ SetActivityEvaluate(t)
             \/ SetActivityNotPlaying(t)
        ELSE BridgeError(t) /\ UNCHANGED <<globals, discordClient, stopTeardowns>>
    /\ UNCHANGED <<knownStations, envVars, sameSends>>

(***************************************************************************)
(* checkCurrentApplicationState (lines 276-294)                            *)
(***************************************************************************)
CheckName(t) ==
    /\ t.pc = "name"
    /\ \E ok \in BOOLEAN :
        IF ok
        THEN /\ tasks' = Replaced(t, [t EXCEPT !.pc = "artist", !.trackName = content[1]])
             /\ ev' = Event("step")
             /\ UNCHANGED startup
        ELSE BridgeError(t)
    /\ UNCHANGED <<knownStations, globals, discordClient, envVars, history>>

CheckArtist(t) ==
    /\ t.pc = "artist"
    /\ \E ok \in BOOLEAN :
        IF ok
        THEN /\ tasks' = Replaced(t, [t EXCEPT !.pc = "album", !.artistName = content[2]])
             /\ ev' = Event("step")
             /\ UNCHANGED startup
        ELSE BridgeError(t)
    /\ UNCHANGED <<knownStations, globals, discordClient, envVars, history>>

\* lines 282-287: complete facts that differ from previousPlaying; the call of
\* sendPlayingToDiscord suspends at its first query
CheckLocalChanged(t, albumName) ==
    /\ requestedClientId' = iTunesMusicClientId
    /\ previousStreaming' = EmptyFingerprint
    /\ previousPlaying' = Fingerprint(t.trackName, t.artistName, albumName)
    /\ tasks' = Replaced(t, [t EXCEPT !.pc = "time", !.albumName = albumName])
    /\ ev' = Event("step")
    /\ UNCHANGED <<activatedClientId, station, loggedIn, startup>>

\* the end of checkCurrentApplicationState: line 293
Evaluated(t) ==
    /\ loggedIn' = TRUE
    /\ startup' = Finished(t)

\* fetchStation (lines 235-261), called from line 290
fetchStation(t, stationName) ==
    IF currentStationName # stationName
    THEN IF StationKeyThrows
         THEN Rejects(t, "rejected") /\ UNCHANGED loggedIn
         ELSE /\ tasks' = Replaced(t, Detached("stationPage", stationName))
              /\ ev' = Event("resolve")
              /\ Evaluated(t)
    ELSE IF currentStationId # ""
         THEN /\ tasks' = Replaced(t, Detached("nowPlaying", currentStationId))
              /\ ev' = Event("step")
              /\ Evaluated(t)
         ELSE /\ tasks' = Without(t)
              /\ ev' = Event("step")
              /\ Evaluated(t)

\* the station path clearing the station lane as well
CheckStationResetsBoth(t) ==
    /\ previousPlaying' = EmptyFingerprint
    /\ previousStreaming' = EmptyFingerprint
    /\ fetchStation(t, t.trackName)
    /\ UNCHANGED <<requestedClientId, activatedClientId, station>>

\* lines 288-291: a name without artist and album is a station name
CheckStation(t) ==
    /\ previousPlaying' = EmptyFingerprint
    /\ fetchStation(t, t.trackName)
    /\ UNCHANGED <<requestedClientId, activatedClientId, station, previousStreaming>>

CheckAlbum(t) ==
    /\ t.pc = "album"
    /\ \E ok \in BOOLEAN :
        IF ok
        THEN LET albumName == content[3]
                 current == Fingerprint(t.trackName, t.artistName, albumName)
             IN  IF /\ t.trackName # "" /\ t.artistName # "" /\ albumName # ""
                    /\ current # previousPlaying
                 THEN CheckLocalChanged(t, albumName)
                 ELSE IF t.trackName # "" /\ t.artistName = "" /\ albumName = ""
                      THEN CheckStation(t)
                      ELSE /\ tasks' = Without(t)
                           /\ ev' = Event("step")
                           /\ Evaluated(t)
                           /\ UNCHANGED <<requestedClientId, activatedClientId, station,
                                          previousPlaying, previousStreaming>>
        ELSE BridgeError(t) /\ UNCHANGED globals
    /\ UNCHANGED <<knownStations, discordClient, envVars, history>>

(***************************************************************************)
(* sendPlayingToDiscord (lines 91-106) and discordSend (lines 147-165)     *)
(***************************************************************************)
\* lines 148-152
stationLogo == IF currentStationName # "" THEN getStationKeyName(currentStationName) ELSE "itunes"
stationLogoThrows == currentStationName # "" /\ StationKeyThrows

\* discordClient.setActivity is called with a payload built from these facts and
\* the icon key of lines 148-152
Send(mode, facts) ==
    [type |-> "send", mode |-> mode, facts |-> facts, largeImageKey |-> stationLogo]

\* the session rejected a payload built from these facts
SendError(mode, facts) ==
    [type |-> "sendError", mode |-> mode, facts |-> facts, largeImageKey |-> ""]

Counted(facts) ==
    IF player = "playing" /\ facts = content /\ sameSends < 2
    THEN sameSends + 1 ELSE sameSends

\* the answers of the position and duration queries (lines 94-95, one suspension
\* here: they only fill the payload), then discordSend up to its await
Time(t) ==
    /\ t.pc = "time"
    /\ \E ok \in BOOLEAN :
        IF ~ok
        THEN BridgeError(t) /\ UNCHANGED sameSends
        ELSE IF stationLogoThrows
             THEN Rejects(t, "rejected") /\ UNCHANGED sameSends
             ELSE /\ ev' = Send("playing", FactsOf(t))
                  /\ sameSends' = Counted(FactsOf(t))
                  /\ tasks' = Replaced(t, [t EXCEPT !.pc = "sending"])
                  /\ UNCHANGED startup
    /\ UNCHANGED <<knownStations, globals, discordClient, envVars, stopTeardowns>>

\* the promise of discordClient.setActivity settles; .catch logs a rejection
\* (lines 162-164); the callers return and line 293 runs
Sent(t) ==
    /\ t.pc = "sending"
    /\ \E ok \in BOOLEAN :
        /\ ok => discordClient = "open"
        /\ ev' = IF ok THEN Event("step") ELSE SendError("playing", FactsOf(t))
    /\ tasks' = Without(t)
    /\ Evaluated(t)
    /\ UNCHANGED <<knownStations, requestedClientId, activatedClientId, station,
                   previousPlaying, previousStreaming, discordClient, envVars, history>>

(***************************************************************************)
(* The callback of fetchStation (lines 239-257)                            *)
(***************************************************************************)
StationIds == {"12345"}

\* the page matches the stationPage pattern: lines 244-256
StationResolved(t, stationId) ==
    /\ currentStationId' = stationId
    /\ currentStationName' = t.arg
    /\ requestedClientId' = iTunesRadioClientId
    /\ IF activatedClientId = iTunesRadioClientId
       THEN tasks' = Replaced(t, Detached("nowPlaying", stationId))
       ELSE tasks' = Without(t)
    /\ ev' = Event("step")

\* a failed resolution that forgets the active station
StationUnparseableClears(t) ==
    /\ tasks' = Without(t)
    /\ ev' = Event("resolutionError")
    /\ currentStationId' = ""
    /\ currentStationName' = ""
    /\ UNCHANGED requestedClientId

\* no match: `matches` is null and `matches[1]` throws inside the callback
StationUnparseable(t) ==
    /\ tasks' = Without(t)
    /\ ev' = Event("resolutionError")
    /\ UNCHANGED <<station, requestedClientId>>

\* fetchUrl rejected (status other than 200, network failure): nothing handles it
StationFetchFailed(t) ==
    /\ tasks' = Without(t)
    /\ ev' = Event("rejected")
    /\ UNCHANGED <<station, requestedClientId>>

StationPage(t) ==
    /\ t.pc = "stationPage"
    /\ \/ StationFetchFailed(t)
       \/ StationUnparseable(t)
       \/ \E stationId \in StationIds : StationResolved(t, stationId)
    /\ UNCHANGED <<knownStations, activatedClientId, previousPlaying, previousStreaming,
                   loggedIn, discordClient, startup, envVars, history>>

(***************************************************************************)
(* The callback of fetchTrackData (lines 201-214)                          *)
(***************************************************************************)
\* String.split(' - '): the segments between the separators, from position i on,
\* `segment` being the text collected since the last separator
RECURSIVE SplitFrom(_, _, _)
SplitFrom(streamTitle, i, segment) ==
    IF i > Len(streamTitle) THEN <<segment>>
    ELSE IF streamTitle[i] = Separator
         THEN <<segment>> \o SplitFrom(streamTitle, i + 1, "")
         ELSE SplitFrom(streamTitle, i + 1, segment \o streamTitle[i])

\* String.split(' - ', 2): at most the first two segments
Split2(streamTitle) ==
    LET segments == SplitFrom(streamTitle, 1, "")
    IN  SubSeq(segments, 1, IF Len(segments) < 2 THEN Len(segments) ELSE 2)
\* an index past the end is undefined, which is falsy like ''
At(segments, i) == IF i <= Len(segments) THEN segments[i] ELSE ""

\* the derivation with the two segments of the title exchanged
TrackOfSwapped(trackData) ==
    LET streamTitle == Split2(trackData.streamTitle)
        artistName == IF trackData.artistName # "" THEN trackData.artistName
                      ELSE IF At(streamTitle, 2) # "" THEN At(streamTitle, 2) ELSE "N/A"
        trackName == IF trackData.songName # "" THEN trackData.songName
                     ELSE IF At(streamTitle, 1) # "" THEN At(streamTitle, 1) ELSE "N/A"
        albumName == IF trackData.albumName # "" THEN trackData.albumName ELSE ""
    IN  <<trackName, artistName, albumName>>

\* lines 204-207
TrackOf(trackData) ==
    LET streamTitle == Split2(trackData.streamTitle)
        artistName == IF trackData.artistName # "" THEN trackData.artistName
                      ELSE IF At(streamTitle, 1) # "" THEN At(streamTitle, 1) ELSE "N/A"
        trackName == IF trackData.songName # "" THEN trackData.songName
                     ELSE IF At(streamTitle, 2) # "" THEN At(streamTitle, 2) ELSE "N/A"
        albumName == IF trackData.albumName # "" THEN trackData.albumName ELSE ""
    IN  <<trackName, artistName, albumName>>

\* lines 210-213 with sendListeningToDiscord (lines 122-135), which is not
\* awaited: it runs up to the await inside discordSend
StreamingChanged(t, facts) ==
    /\ previousStreaming' = Fingerprint(facts[1], facts[2], facts[3])
    /\ IF stationLogoThrows
       THEN /\ tasks' = Without(t)
            /\ ev' = Event("rejected")
       ELSE /\ ev' = Send("listening", facts)
            /\ tasks' = Replaced(t, [t EXCEPT !.pc = "listenSending", !.trackName = facts[1],
                                              !.artistName = facts[2], !.albumName = facts[3]])

NowPlayingFetchFailed(t) ==
    /\ tasks' = Without(t)
    /\ ev' = Event("rejected")
    /\ UNCHANGED previousStreaming

NowPlaying(t) ==
    /\ t.pc = "nowPlaying"
    /\ \/ NowPlayingFetchFailed(t)
       \/ \E trackData \in NowPlayingRecords :
            LET facts == TrackOf(trackData)
            IN  IF Fingerprint(facts[1], facts[2], facts[3]) # previousStreaming
                THEN StreamingChanged(t, facts)
                ELSE /\ tasks' = Without(t)
                     /\ ev' = Event("step")
                     /\ UNCHANGED previousStreaming
    /\ UNCHANGED <<knownStations, requestedClientId, activatedClientId, station,
                   previousPlaying, loggedIn, discordClient, startup, envVars, history>>

\* the promise of the station payload's setActivity settles (lines 162-164)
ListenSent(t) ==
    /\ t.pc = "listenSending"
    /\ \E ok \in BOOLEAN :
        /\ ok => discordClient = "open"
        /\ ev' = IF ok THEN Event("step") ELSE SendError("listening", FactsOf(t))
    /\ tasks' = Without(t)
    /\ UNCHANGED <<knownStations, globals, discordClient, startup, envVars, history>>

(***************************************************************************)
(* The session object (discord-rpc Client, lines 50-55)                    *)
(***************************************************************************)
\* the transport opens: 'connected' is emitted and its handler calls
\* checkCurrentApplicationState
Connected ==
    /\ discordClient = "connecting"
    /\ NTasks < MaxTasks
    /\ discordClient' = "open"
    /\ tasks' = tasks (+) SetToBag({Task("connected", "name", "", "", "", "")})
    /\ ev' = Event("step")
    /\ UNCHANGED <<knownStations, globals, startup, envVars, history>>

\* connect rejects; line 323 logs it
ConnectFailed ==
    /\ discordClient = "connecting"
    /\ discordClient' = "idle"
    /\ ev' = Event("connectError")
    /\ UNCHANGED <<knownStations, globals, startup, tasks, envVars, history>>

(***************************************************************************)
(* The player                                                              *)
(***************************************************************************)
PlayerState ==
    /\ player' = IF player = "playing" THEN "stopped" ELSE "playing"
    /\ sameSends' = 0
    /\ stopTeardowns' = 0
    /\ ev' = Event("step")
    /\ UNCHANGED <<knownStations, globals, discordClient, startup, tasks, content>>

PlayerContent ==
    /\ \E c \in Contents \ {content} : content' = c
    /\ sameSends' = 0
    /\ ev' = Event("step")
    /\ UNCHANGED <<knownStations, globals, discordClient, startup, tasks, player,
                   stopTeardowns>>

Next ==
    \/ StartVersion
    \/ StartStations
    \/ Tick
    \/ \E t \in TaskSet : SetActivity(t)
    \/ \E t \in TaskSet : CheckName(t)
    \/ \E t \in TaskSet : CheckArtist(t)
    \/ \E t \in TaskSet : CheckAlbum(t)
    \/ \E t \in TaskSet : Time(t)
    \/ \E t \in TaskSet : Sent(t)
    \/ \E t \in TaskSet : StationPage(t)
    \/ \E t \in TaskSet : NowPlaying(t)
    \/ \E t \in TaskSet : ListenSent(t)
    \/ Connected
    \/ ConnectFailed
    \/ PlayerState
    \/ PlayerContent

Spec == Init /\ [][Next]_vars

(***************************************************************************)
(* Scheduling: the interval timer keeps firing (line 400), every external  *)
(* call is answered or fails in the end, and a callback whose result has   *)
(* arrived is run by the event loop.                                       *)
(***************************************************************************)
Fairness ==
    /\ WF_vars(StartVersion)
    /\ WF_vars(StartStations)
    /\ WF_vars(Tick)
    /\ WF_vars(\E t \in TaskSet : SetActivity(t))
    /\ WF_vars(\E t \in TaskSet : CheckName(t))
    /\ WF_vars(\E t \in TaskSet : CheckArtist(t))
    /\ WF_vars(\E t \in TaskSet : CheckAlbum(t))
    /\ WF_vars(\E t \in TaskSet : Time(t))
    /\ WF_vars(\E t \in TaskSet : Sent(t))
    /\ WF_vars(\E t \in TaskSet : StationPage(t))
    /\ WF_vars(\E t \in TaskSet : NowPlaying(t))
    /\ WF_vars(\E t \in TaskSet : ListenSent(t))
    /\ WF_vars(Connected \/ ConnectFailed)

LiveSpec == Init /\ [][Next]_vars /\ Fairness

(***************************************************************************)
(* The derivation of lines 204-207 on its own: every record of the shape    *)
(* documented at lines 176-191, with titles of up to MaxTitleLen tokens     *)
(***************************************************************************)
TitleTokens == {"A", "T", Separator}
StreamTitles == UNION {[1..n -> TitleTokens] : n \in 0..MaxTitleLen}
TrackDataRecords ==
    [songName : {"", "Song"}, artistName : {"", "Artist"}, albumName : {"", "Album"},
     streamTitle : StreamTitles]

\* the response of the now-playing endpoint has arrived with this record
DeriveInit ==
    /\ knownStations = [loaded |-> TRUE, map |-> StationAssets]
    /\ discordClient = "open"
    /\ requestedClientId = iTunesRadioClientId
    /\ activatedClientId = iTunesRadioClientId
    /\ currentStationName = Station1[1]
    /\ currentStationId \in StationIds
    /\ previousPlaying = EmptyFingerprint
    /\ previousStreaming = EmptyFingerprint
    /\ loggedIn = TRUE
    /\ startup = "interval"
    /\ tasks = EmptyBag
    /\ player = "playing"
    /\ content = Station1
    /\ \E trackData \in TrackDataRecords : ev = [type |-> "record", trackData |-> trackData]
    /\ sameSends = 0
    /\ stopTeardowns = 0

\* lines 204-207 applied to the record
DeriveStep ==
    /\ ev.type = "record"
    /\ ev' = [type |-> "derived", trackData |-> ev.trackData,
              facts |-> TrackOf(ev.trackData)]
    /\ UNCHANGED <<knownStations, globals, discordClient, startup, tasks, envVars, history>>

DeriveNext == DeriveStep

DeriveSpec == DeriveInit /\ [][DeriveNext]_vars

(***************************************************************************)
(* Claims                                                                  *)
(***************************************************************************)
\* C1: while the player keeps playing the same complete facts, at most one local
\* payload carrying those facts is sent, whichever call sends it.
C1_OneSendPerFacts == sameSends <= 1

\* C2: when the session rejects the payload for facts F, the fingerprint of the
\* lane that sent it is not F afterwards.
C2_RejectedSendNotCommitted ==
    ev.type = "sendError" =>
        IF ev.mode = "playing"
        THEN previousPlaying # Fingerprint(ev.facts[1], ev.facts[2], ev.facts[3])
        ELSE previousStreaming # Fingerprint(ev.facts[1], ev.facts[2], ev.facts[3])

TickTask == Task("timer", "state", "", "", "", "")

\* C3: when the timer starts a setActivity call, no setActivity call started
\* earlier is still pending.
C3_TicksSerialized ==
    ev.type = "tick" =>
        \A t \in BagToSet(tasks (-) SetToBag({TickTask})) : t.origin \notin {"first", "timer"}

\* C4: after the player stopped, the session is torn down by one non-playing
\* tick and by no later one.
C4_OneTeardownPerStop == stopTeardowns <= 1

\* C5: every teardown-and-recreate, by a non-playing tick or by a profile switch,
\* leaves the fingerprints of both lanes empty.
C5_TeardownClearsBothLanes ==
    ev.type \in {"teardown", "switch"} =>
        previousPlaying = EmptyFingerprint /\ previousStreaming = EmptyFingerprint

\* C6: every step that changes the active profile is the profile switch, and it
\* leaves a replacement session object that is not connected and the connected
\* flag false.
C6_ProfileChangeTearsDown ==
    [][activatedClientId' # activatedClientId =>
          /\ ev'.type = "switch"
          /\ discordClient' = "idle"
          /\ loggedIn' = FALSE]_vars
C6_Witness ==
    /\ ev.type = "switch"
    /\ activatedClientId = iTunesRadioClientId

\* C7: at no time are two resolution fetches for the same station name pending.
C7_OneResolutionPerStation ==
    \A t \in TaskSet : t.pc = "stationPage" => CopiesIn(t, tasks) <= 1

\* the step leaves one more task at one of these positions than it found
Started(pcs) ==
    \E t \in BagToSet(tasks') : t.pc \in pcs /\ CopiesIn(t, tasks') > CopiesIn(t, tasks)

\* C8: the step that finds no station id in the lookup page ends in an error and
\* changes neither the active station nor the requested profile, calls no
\* setActivity and starts no now-playing fetch.
C8_NoStationIdChangesNothing ==
    [][ev'.type = "resolutionError" =>
          /\ UNCHANGED <<currentStationId, currentStationName, requestedClientId>>
          /\ ~Started({"sending", "listenSending", "nowPlaying"})]_vars
C8_Witness ==
    /\ ev.type = "resolutionError"
    /\ currentStationId # ""

\* C9: a failed fetch of the station assets does not keep the poll loop from
\* starting, and with no assets loaded an icon-key lookup does not throw.
C9_StartupSurvivesAssetFailure ==
    /\ ev.type = "stationsFetchError" => startup \in {"first", "interval"}
    /\ startup \in {"first", "interval"} => ~StationKeyThrows

\* C10: a failed player query does not end the poll loop.
C10_BridgeErrorSwallowed == ev.type = "bridgeError" => startup # "dead"

\* C12: every local-mode payload carries the static default icon key 'itunes' as
\* largeImageKey.
C12_LocalPayloadDefaultIcon ==
    ev.type = "send" /\ ev.mode = "playing" => ev.largeImageKey = "itunes"

\* C13: the connected flag is true only while the current session object is
\* connected, that is after it delivered its 'connected' signal.
C13_LoggedInOnlyWhenOpen == loggedIn => discordClient = "open"

\* payloads handed to discordClient.setActivity whose promise has not settled
InFlight == {t \in TaskSet : t.pc \in {"sending", "listenSending"}}

\* C16: at no time are two setActivity calls pending.
C16_OnePayloadInFlight ==
    /\ Cardinality(InFlight) <= 1
    /\ \A t \in InFlight : CopiesIn(t, tasks) <= 1

\* C18: a local-mode payload is sent only while the active profile is the local
\* one, a station-mode payload only while it is the station one.
C18_PayloadOnMatchingProfile ==
    ev.type = "send" =>
        activatedClientId = IF ev.mode = "playing" THEN iTunesMusicClientId
                            ELSE iTunesRadioClientId

\* C19: setActivity is called only on a session object that is connected.
C19_SendOnlyWhenOpen == ev.type = "send" => discordClient = "open"

\* the profile the content stands for: complete local facts the local profile, a
\* name without artist and album the station profile
ImpliedClientId(c) ==
    IF c[1] # "" /\ c[2] # "" /\ c[3] # "" THEN iTunesMusicClientId
    ELSE IF c[1] # "" /\ c[2] = "" /\ c[3] = "" THEN iTunesRadioClientId
    ELSE ""

\* the step resumes a setActivity call with the answer of its player-state query
StateAnswered ==
    /\ ev'.type # "bridgeError"
    /\ \E t \in TaskSet : t.pc = "state" /\ CopiesIn(t, tasks') < CopiesIn(t, tasks)

\* C14: a setActivity call that observes 'playing' while the connected flag is set
\* and the player's content stands for another profile than the active one
\* performs the profile switch in that step.
C14_SwitchOnImpliedProfile ==
    [][(/\ StateAnswered
        /\ player = "playing" /\ loggedIn
        /\ ImpliedClientId(content) # activatedClientId) => ev'.type = "switch"]_vars

\* the step resumes the evaluation t with the answer of its album query
AlbumAnswered(t) ==
    /\ t.pc = "album"
    /\ ev'.type # "bridgeError"
    /\ CopiesIn(t, tasks') < CopiesIn(t, tasks)

\* C15: an evaluation that finds changed complete local facts empties the station
\* lane and sets the local lane; one that finds a station candidate empties the
\* local lane and leaves the station lane as it is.
C15_EvaluationResetsOtherLane ==
    [][\A t \in TaskSet : AlbumAnswered(t) =>
          LET current == Fingerprint(t.trackName, t.artistName, content[3])
          IN  /\ (ImpliedClientId(current) = iTunesMusicClientId /\ current # previousPlaying)
                    => /\ previousStreaming' = EmptyFingerprint
                       /\ previousPlaying' = current
              /\ ImpliedClientId(current) = iTunesRadioClientId
                    => /\ previousPlaying' = EmptyFingerprint
                       /\ UNCHANGED previousStreaming]_vars
C15_Witness ==
    /\ ev.type = "resolve"
    /\ previousPlaying = EmptyFingerprint
    /\ previousStreaming # EmptyFingerprint

\* the i-th segment of the title split on the separator, '' when there is none
Segment(streamTitle, i) ==
    LET segments == SplitFrom(streamTitle, 1, "")
    IN  IF i <= Len(segments) THEN segments[i] ELSE ""
OrElse(a, b) == IF a # "" THEN a ELSE b

\* C17: the derived artist is artistName, else the first segment of the stream
\* title, else 'N/A'; the derived track is songName, else the second segment, else
\* 'N/A'; the album is albumName or empty. The title 'A - T' with empty artistName
\* and songName gives artist 'A' and track 'T'.
C17_NowPlayingDerivation ==
    ev.type = "derived" =>
        LET trackData == ev.trackData
        IN  /\ ev.facts[2] = OrElse(trackData.artistName,
                                    OrElse(Segment(trackData.streamTitle, 1), "N/A"))
            /\ ev.facts[1] = OrElse(trackData.songName,
                                    OrElse(Segment(trackData.streamTitle, 2), "N/A"))
            /\ ev.facts[3] = trackData.albumName
            /\ (/\ trackData.streamTitle = <<"A", Separator, "T">>
                /\ trackData.artistName = "" /\ trackData.songName = "")
                    => ev.facts[2] = "A" /\ ev.facts[1] = "T"
C17_Witness ==
    /\ ev.type = "derived"
    /\ ev.trackData.artistName = "" /\ ev.trackData.songName = ""
    /\ ev.trackData.streamTitle = <<"A", Separator, "T">>
    /\ ev.facts = <<"T", "A", ev.trackData.albumName>>

\* what a step reports when an external call failed or an exception ended a call
FailureTypes ==
    {"bridgeError", "rejected", "sendError", "connectError", "resolutionError",
     "versionError", "stationsFetchError", "stationsUnparseable"}
NoFailure == ev'.type \notin FailureTypes

\* C11: if from some point on the player is not playing and the player-state
\* queries are answered, then from some point on the connected flag is false for
\* good.
C11_StaysDisconnected ==
    (<>[](player # "playing") /\ <>[][NoFailure]_vars) => <>[](~loggedIn)
C11_Witness ==
    /\ player # "playing"
    /\ ev.type = "teardown"
    /\ ~loggedIn

\* C20: if the poll loop runs and from some point on the player keeps playing the
\* same content and no call fails, then from some point on the connected flag is
\* set and the active and the requested profile are the one the content stands
\* for, for good.
C20_Stabilises ==
    (/\ <>[](startup = "interval" /\ player = "playing")
     /\ <>[][content' = content /\ NoFailure]_vars)
        => <>[](/\ loggedIn
                /\ activatedClientId = ImpliedClientId(content)
                /\ requestedClientId = ImpliedClientId(content))

\* C21: a setActivity call that observes 'playing' with the connected flag unset,
\* and so calls connect, does not find the session object with a connect pending
\* nor connected with the evaluation of its 'connected' handler still running.
C21_OneConnectOutstanding ==
    [][(StateAnswered /\ player = "playing" /\ ~loggedIn) =>
          /\ discordClient # "connecting"
          /\ ~(discordClient = "open" /\ \E t \in TaskSet : t.origin = "connected")]_vars
====
